---- MODULE Spec2Model ----
(***************************************************************************)
(* kd3: a balanced 3-D k-d tree (src/kd3/kdtree.c, src/kd3/kdtree.h).      *)
(*                                                                         *)
(* A double is modelled by an integer: the code only compares and copies   *)
(* coordinates, so their order is all that matters.  The finite doubles    *)
(* are -DBL_MAX..DBL_MAX; point coordinates are finite doubles.            *)
(* A C pointer is an address: 0 is NULL, a heap block is a positive        *)
(* number, a pointer into the node arena is 1 + the node's arena index.    *)
(* C arrays are 0-based; the sequences that hold them are 1-based, so      *)
(* a[i] in the code is a[i + 1] here.                                      *)
(***************************************************************************)
EXTENDS Integers, Sequences, FiniteSets, TLC

\* ------------------------------------------------------------- bounds
MaxCount == 3
MaxCoord == 1
MaxApothem == 2
MaxMoved == 1
MaxFixture == 5
MaxSlack == 1

\* ---------------------------------------------------------- constants
NDIMS == 3
KDTREE_ITERATOR_INITIAL_SIZE == 50
KDTREE_ITERATOR_GROWTH_RATIO == 2
KDTREE_END == -1
NULL == 0
\* the number of points that fills the iterator's block after it has grown
\* once, and some more
DiagonalCount ==
  (KDTREE_ITERATOR_INITIAL_SIZE * KDTREE_ITERATOR_GROWTH_RATIO) + MaxSlack
\* the largest finite double: beyond every coordinate and every bound of a
\* cube the model draws
DBL_MAX == DiagonalCount + MaxCoord + MaxApothem + 1
\* the indeterminate value of a malloc'ed field that was never written
UNINIT == -(DBL_MAX + MaxApothem + KDTREE_ITERATOR_INITIAL_SIZE)

VARIABLES
  pc,         \* "run", or the assert() that failed and ended the process
  heap,       \* the addresses of the blocks malloc'ed and not yet freed
  bad_free,   \* TRUE once free() was handed a block that is not live
  xyz,        \* the caller's x, y, z arrays that the tree was built from
  how,        \* how the last build came by the tree's storage
  tree_ptr,   \* the caller's kdtree* handle
  tree,       \* the kdtree record *tree_ptr
  points,     \* the block tree->points
  node_data,  \* the block tree->node_data
  iter_ptr,   \* the caller's kdtree_iterator* handle
  iter,       \* the kdtree_iterator record *iter_ptr
  data,       \* the block iter->data
  search_space, \* the box of the last call, when it was a search
  ret,        \* what the last call returned, when it returned a value
  last,       \* the name of the last API function called
  arg         \* the count or the apothem it was given, when it took one

vars == <<pc, heap, bad_free, xyz, how, tree_ptr, tree, points, node_data,
          iter_ptr, iter, data, search_space, ret, last, arg>>

treeVars == <<tree_ptr, tree, points, node_data>>
iterVars == <<iter_ptr, iter, data>>

\* ------------------------------------------------------------ the heap
\* malloc(): the lowest address that is not live
Malloc(h) ==
  CHOOSE a \in 1..(Cardinality(h) + 1) :
    a \notin h /\ \A b \in 1..(a - 1) : b \in h

\* ----------------------------------------------------------- the types
Coords == 0..MaxCoord

\* struct data_point
DataPoint(X, Y, Z, i) == [x |-> X, y |-> Y, z |-> Z, idx |-> i]

\* struct tree_node
TreeNode(l, r, s, i) == [left |-> l, right |-> r, split |-> s, idx |-> i]

\* struct boundaries dim[3], indexed 0..2
Space(x_min, x_max, y_min, y_max, z_min, z_max) ==
  [a \in 0..(NDIMS - 1) |->
     IF a = 0 THEN [min |-> x_min, max |-> x_max]
     ELSE IF a = 1 THEN [min |-> y_min, max |-> y_max]
     ELSE [min |-> z_min, max |-> z_max]]

\* the kdtree record and the blocks of a handle that is NULL
NoTree == [count |-> 0, max_nodes |-> 0, next_node |-> 0,
           points |-> NULL, node_data |-> NULL, root |-> NULL]
NoIter == [data |-> NULL, capacity |-> 0, size |-> 0, current |-> 0]
NoSpace == Space(0, 0, 0, 0, 0, 0)

\* the split read with x and y mistaken for each other
SplitOf_swapped(point, axis) ==
  IF axis = 0 THEN point.y ELSE IF axis = 1 THEN point.x ELSE point.z

\* split = (axis == 0) ? point->x : ((axis == 1) ? point->y : point->z)
SplitOf(point, axis) ==
  IF axis = 0 THEN point.x ELSE IF axis = 1 THEN point.y ELSE point.z

\* CMP(v1, v2)
CMP(v1, v2) == IF v1 > v2 THEN 1 ELSE IF v1 < v2 THEN -1 ELSE 0

\* func_select[axis]: cmp_x, cmp_y, cmp_z
func_select(axis, A1, A2) ==
  IF axis = 0 THEN CMP(A1.x, A2.x)
  ELSE IF axis = 1 THEN CMP(A1.y, A2.y)
  ELSE CMP(A1.z, A2.z)

\* the one order in which cmp lets qsort leave the elements at positions S
\* of arr when no two of them compare equal: each at its rank
RankedOrder(arr, S, axis) ==
  LET rank == [i \in S |->
                 Cardinality({j \in S : func_select(axis, arr[j], arr[i]) < 0})]
  IN [k \in 1..Cardinality(S) |-> CHOOSE i \in S : rank[i] = k - 1]

\* the orders in which cmp lets qsort leave the elements at positions S of
\* arr: an element that no other precedes comes first, then the rest
RECURSIVE SortedOrders(_, _, _)
SortedOrders(arr, S, axis) ==
  IF S = {} THEN {<<>>}
  ELSE IF \A i, j \in S : i # j => func_select(axis, arr[i], arr[j]) # 0
  THEN {RankedOrder(arr, S, axis)}
  ELSE UNION {
         {<<m>> \o rest : rest \in SortedOrders(arr, S \ {m}, axis)}
         : m \in {i \in S : \A j \in S : func_select(axis, arr[i], arr[j]) <= 0} }

\* qsort(base + from, count, ..., cmp): every arrangement of the count
\* elements from position `from` that is in cmp's order; the order of
\* elements that compare equal is unspecified
Qsort(arr, from, count, axis) ==
  {[i \in 1..Len(arr) |->
      IF i > from /\ i <= from + count THEN arr[order[i - from]] ELSE arr[i]]
   : order \in SortedOrders(arr, (from + 1)..(from + count), axis)}

\* ------------------------------------------------------- the node arena
\* A tree under construction: the kdtree record, its two blocks, and ok,
\* which is FALSE once an assert() has failed.
Under(t, pts, nd) == [tree |-> t, points |-> pts, node_data |-> nd, ok |-> TRUE]

\* _next_node: assert(next_node < max_nodes), then &node_data[next_node++]
_next_node(u) ==
  IF ~(u.tree.next_node < u.tree.max_nodes)
  THEN [u |-> [u EXCEPT !.ok = FALSE], node |-> NULL]
  ELSE [u |-> [u EXCEPT !.tree.next_node = @ + 1],
        node |-> u.tree.next_node + 1]

\* _get_branch_node: the next node, with its split set
_get_branch_node(u, split) ==
  LET n == _next_node(u) IN
  IF ~n.u.ok THEN n
  ELSE [n EXCEPT !.u.node_data[n.node].split = split]

\* _get_leaf_node: the next node, with left = right = NULL and idx = offset
_get_leaf_node(u, offset) ==
  LET n == _next_node(u) IN
  IF ~n.u.ok THEN n
  ELSE [n EXCEPT !.u.node_data[n.node].left = NULL,
                 !.u.node_data[n.node].right = NULL,
                 !.u.node_data[n.node].idx = offset]

\* _is_leaf_node
_is_leaf_node(node) == node.left = NULL /\ node.right = NULL

\* ----------------------------------------------------- the tree builder
\* mid = idx_from + ((idx_to - idx_from) / 2)
MidOf(idx_from, idx_to) == idx_from + ((idx_to - idx_from) \div 2)

\* the axis of a tree of two dimensions
AxisAt_flat(depth) == depth % (NDIMS - 1)

\* axis = depth % NDIMS
AxisAt(depth) == depth % NDIMS

\* _build_kdtree: every outcome [u, node] of building the sub-range
\* idx_from..idx_to at depth, one per order qsort may leave ties in
RECURSIVE _build_kdtree(_, _, _, _)
_build_kdtree(idx_from, idx_to, depth, u) ==
  LET count == idx_to - idx_from + 1
      mid == MidOf(idx_from, idx_to)
      axis == AxisAt(depth)
  IN
  IF ~u.ok THEN {[u |-> u, node |-> NULL]}
  ELSE IF count = 1 THEN {_get_leaf_node(u, idx_from)}
  ELSE
    UNION {
      LET sorted == [u EXCEPT !.points = q]
          split == SplitOf(sorted.points[mid + 1], axis)
          b == _get_branch_node(sorted, split)
      IN
      IF ~b.u.ok THEN {b}
      ELSE
        UNION {
          { IF ~r.u.ok THEN r
            ELSE [u |-> [r.u EXCEPT !.node_data[b.node].left = l.node,
                                    !.node_data[b.node].right = r.node],
                  node |-> b.node]
            : r \in _build_kdtree(mid + 1, idx_to, depth + 1, l.u) }
          : l \in _build_kdtree(idx_from, mid, depth + 1, b.u) }
      : q \in Qsort(u.points, idx_from, count, axis) }

\* max_nodes without the root's slot
MaxNodes_short(count) == (count - 1) * 2

\* max_nodes = ((count - 1) * 2) + 1
MaxNodes(count) == ((count - 1) * 2) + 1

\* the cache loop writing idx only into a block that is new
CachePoints_stale(pts, arrays, count) ==
  [i \in 1..Len(pts) |->
     IF i <= count
     THEN DataPoint(arrays[i].x, arrays[i].y, arrays[i].z,
                    IF pts[i].idx = UNINIT THEN i - 1 ELSE pts[i].idx)
     ELSE pts[i]]

\* the cache loop of kdtree_build: points[i] = (x[i], y[i], z[i], i)
CachePoints(pts, arrays, count) ==
  [i \in 1..Len(pts) |->
     IF i <= count
     THEN DataPoint(arrays[i].x, arrays[i].y, arrays[i].z, i - 1)
     ELSE pts[i]]

\* a malloc'ed block of n records whose fields are indeterminate
FreshPoints(n) == [i \in 1..n |-> DataPoint(UNINIT, UNINIT, UNINIT, UNINIT)]
FreshNodes(n) == [i \in 1..n |-> TreeNode(UNINIT, UNINIT, UNINIT, UNINIT)]

\* ----------------------------------------------------- the result iterator
\* An iterator in use: the kdtree_iterator record, its data block, and the
\* log of what the traversal did with each child it was handed (the log is
\* not program state: it records the calls of _explore_branch)
Iterating(i, d) == [iter |-> i, data |-> d, log |-> <<>>]

\* a malloc'ed block of n size_t whose values are indeterminate
FreshData(n) == [i \in 1..n |-> UNINIT]

\* _iterator_new: current = 0, size = 0, capacity = the initial size
_iterator_new(a_data) ==
  Iterating([data |-> a_data, capacity |-> KDTREE_ITERATOR_INITIAL_SIZE,
             size |-> 0, current |-> 0],
            FreshData(KDTREE_ITERATOR_INITIAL_SIZE))

\* _iterator_reset that rewinds and keeps the size
_iterator_reset_keeps(i, d) == Iterating([i EXCEPT !.current = 0], d)

\* _iterator_reset: size = 0, current = 0
_iterator_reset(i, d) == Iterating([i EXCEPT !.size = 0, !.current = 0], d)

\* _iterator_push that gets the larger block from malloc, not realloc
_iterator_push_malloc(it, value) ==
  LET full == it.iter.size = it.iter.capacity
      capacity == IF full THEN it.iter.capacity * KDTREE_ITERATOR_GROWTH_RATIO
                  ELSE it.iter.capacity
      block == IF full THEN FreshData(capacity) ELSE it.data
  IN [it EXCEPT !.iter.capacity = capacity,
                !.iter.size = @ + 1,
                !.data = [block EXCEPT ![it.iter.size + 1] = value]]

\* _iterator_push: grow the block when full (realloc keeps the elements;
\* the block is taken to grow in place), then data[size++] = value
_iterator_push(it, value) ==
  LET full == it.iter.size = it.iter.capacity
      capacity == IF full THEN it.iter.capacity * KDTREE_ITERATOR_GROWTH_RATIO
                  ELSE it.iter.capacity
      block == IF full
               THEN it.data \o FreshData(capacity - it.iter.capacity)
               ELSE it.data
  IN [it EXCEPT !.iter.capacity = capacity,
                !.iter.size = @ + 1,
                !.data = [block EXCEPT ![it.iter.size + 1] = value]]

\* ------------------------------------------------- the range search engine
\* _point_in_search_space with the upper x bound taken as exclusive
_point_in_search_space_exclusive(point, space) ==
  /\ point.x < space[0].max /\ point.x >= space[0].min
  /\ point.y <= space[1].max /\ point.y >= space[1].min
  /\ point.z <= space[2].max /\ point.z >= space[2].min

\* _point_in_search_space
_point_in_search_space(point, space) ==
  /\ point.x <= space[0].max /\ point.x >= space[0].min
  /\ point.y <= space[1].max /\ point.y >= space[1].min
  /\ point.z <= space[2].max /\ point.z >= space[2].min

\* _completely_enclosed without the tests of the domain's min against the
\* box's min and of its max against the box's max
_completely_enclosed_halved(space, domain) ==
  \A a \in 0..(NDIMS - 1) :
    /\ domain[a].min <= space[a].max
    /\ domain[a].max >= space[a].min

\* _completely_enclosed
_completely_enclosed(space, domain) ==
  \A a \in 0..(NDIMS - 1) :
    /\ domain[a].min <= space[a].max /\ domain[a].min >= space[a].min
    /\ domain[a].max <= space[a].max /\ domain[a].max >= space[a].min

\* _search_area_intersects
_search_area_intersects(space, domain) ==
  ~(\E a \in 0..(NDIMS - 1) :
      space[a].min > domain[a].max \/ space[a].max < domain[a].min)

\* _report_all_leaves: the left subtree is reported to its end, which only
\* adds to the iterator, before the right subtree is entered
RECURSIVE _report_all_leaves(_, _, _)
_report_all_leaves(u, node, it) ==
  LET n == u.node_data[node]
      reported == _report_all_leaves(u, n.left, it)
  IN
  IF _is_leaf_node(n)
  THEN _iterator_push(it, u.points[n.idx + 1].idx)
  ELSE IF it.iter.size <= reported.iter.size
  THEN _report_all_leaves(u, n.right, reported)
  ELSE reported

\* one entry of the traversal log
Visit(node, depth, domain, did) ==
  [node |-> node, depth |-> depth, domain |-> domain, did |-> did]

Logged(it, v) == [it EXCEPT !.log = Append(@, v)]

RECURSIVE _explore_branch(_, _, _, _, _, _)
RECURSIVE _search_kdtree(_, _, _, _, _, _)

\* _explore_branch: test a leaf's point; skip a branch whose domain misses
\* the box; report a branch whose domain the box encloses; else descend
_explore_branch(u, node, depth, space, domain, it) ==
  LET n == u.node_data[node] IN
  IF _is_leaf_node(n)
  THEN IF _point_in_search_space(u.points[n.idx + 1], space)
       THEN _iterator_push(Logged(it, Visit(node, depth, domain, "leaf")),
                           u.points[n.idx + 1].idx)
       ELSE Logged(it, Visit(node, depth, domain, "leaf"))
  ELSE IF _search_area_intersects(space, domain)
  THEN IF _completely_enclosed(space, domain)
       THEN _report_all_leaves(u, node,
                               Logged(it, Visit(node, depth, domain, "enclosed")))
       ELSE _search_kdtree(u, node, depth + 1, space, domain,
                           Logged(it, Visit(node, depth, domain, "descend")))
  ELSE Logged(it, Visit(node, depth, domain, "pruned"))

\* _search_kdtree: the left child under the domain with the axis' max set
\* to the split, then the right child with the axis' min set to the split;
\* the left child is explored to its end, which only adds to the iterator,
\* before the right child is entered
_search_kdtree(u, root, depth, space, domain, it) ==
  LET axis == AxisAt(depth)
      n == u.node_data[root]
      left_domain == [domain EXCEPT ![axis].max = n.split]
      right_domain == [domain EXCEPT ![axis].min = n.split]
      explored == _explore_branch(u, n.left, depth, space, left_domain, it)
  IN IF it.iter.size <= explored.iter.size
     THEN _explore_branch(u, n.right, depth, space, right_domain, explored)
     ELSE explored

\* the domain of the root: infinite space
RootDomain == Space(-DBL_MAX, DBL_MAX, -DBL_MAX, DBL_MAX, -DBL_MAX, DBL_MAX)

\* ------------------------------------------------------ the public APIs
\* free(a) on the live blocks h
Free(h, a) == h \ {a}

\* the live blocks after free() of each block of seq in turn
RECURSIVE FreeAll(_, _)
FreeAll(h, seq) ==
  IF seq = <<>> THEN h ELSE FreeAll(Free(h, Head(seq)), Tail(seq))

\* whether free() of each block of seq in turn, from the live blocks h,
\* is handed a block that is not live
RECURSIVE AnyBadFree(_, _)
AnyBadFree(h, seq) ==
  IF seq = <<>> THEN FALSE
  ELSE Head(seq) \notin h \/ AnyBadFree(Free(h, Head(seq)), Tail(seq))

\* the frees of kdtree_delete without that of node_data
FreedByDelete_leak(t, ptr) == <<t.points, ptr>>

\* the frees of kdtree_delete, in order: points, node_data, the record
FreedByDelete(t, ptr) == <<t.points, t.node_data, ptr>>

\* the frees of kdtree_iterator_delete, in order: data, the record
FreedByIteratorDelete(i, ptr) == <<i.data, ptr>>

\* kdtree_build(x, y, z, count, &tree)
kdtree_build(arrays, count) ==
  /\ pc = "run"
  /\ IF ~(count > 1)
     THEN /\ pc' = "assert(count > 1)"
          /\ UNCHANGED <<heap, bad_free, xyz, how, treeVars>>
     ELSE
       LET realloc == tree_ptr = NULL \/ tree.count # count
           deleted == realloc /\ tree_ptr # NULL
           h0 == IF deleted THEN FreeAll(heap, FreedByDelete(tree, tree_ptr))
                 ELSE heap
           a_tree == Malloc(h0)
           a_points == Malloc(h0 \cup {a_tree})
           a_nodes == Malloc(h0 \cup {a_tree, a_points})
           t0 == IF realloc
                 THEN [count |-> count, max_nodes |-> MaxNodes(count),
                       next_node |-> UNINIT, points |-> a_points,
                       node_data |-> a_nodes, root |-> UNINIT]
                 ELSE tree
           pts0 == IF realloc THEN FreshPoints(count) ELSE points
           nd0 == IF realloc THEN FreshNodes(t0.max_nodes) ELSE node_data
           u0 == Under([t0 EXCEPT !.next_node = 0],
                       CachePoints(pts0, arrays, count), nd0)
       IN
       /\ heap' = IF realloc THEN h0 \cup {a_tree, a_points, a_nodes} ELSE heap
       /\ bad_free' = (bad_free \/
                       (deleted /\ AnyBadFree(heap, FreedByDelete(tree, tree_ptr))))
       /\ tree_ptr' = IF realloc THEN a_tree ELSE tree_ptr
       /\ xyz' = arrays
       /\ how' = IF tree_ptr = NULL THEN "malloc"
                 ELSE IF realloc THEN "realloc"
                 ELSE IF arrays = xyz THEN "in place"
                 ELSE "in place, moved"
       /\ \E o \in _build_kdtree(0, count - 1, 0, u0) :
            /\ pc' = IF o.u.ok THEN "run"
                     ELSE "assert(tree->next_node < tree->max_nodes)"
            /\ tree' = IF o.u.ok THEN [o.u.tree EXCEPT !.root = o.node]
                       ELSE o.u.tree
            /\ points' = o.u.points
            /\ node_data' = o.u.node_data
  /\ UNCHANGED iterVars

\* kdtree_delete that empties the iterator of the tree it frees
kdtree_delete_empties ==
  /\ pc = "run"
  /\ IF tree_ptr = NULL
     THEN UNCHANGED <<heap, bad_free, xyz, how, treeVars, iter>>
     ELSE /\ heap' = FreeAll(heap, FreedByDelete(tree, tree_ptr))
          /\ bad_free' = (bad_free \/
                          AnyBadFree(heap, FreedByDelete(tree, tree_ptr)))
          /\ tree_ptr' = NULL
          /\ tree' = NoTree
          /\ points' = <<>>
          /\ node_data' = <<>>
          /\ xyz' = <<>>
          /\ how' = "none"
          /\ iter' = [iter EXCEPT !.size = 0, !.current = 0]
  /\ UNCHANGED <<pc, iter_ptr, data>>

\* kdtree_delete(&tree)
kdtree_delete ==
  /\ pc = "run"
  /\ IF tree_ptr = NULL
     THEN UNCHANGED <<heap, bad_free, xyz, how, treeVars>>
     ELSE /\ heap' = FreeAll(heap, FreedByDelete(tree, tree_ptr))
          /\ bad_free' = (bad_free \/
                          AnyBadFree(heap, FreedByDelete(tree, tree_ptr)))
          /\ tree_ptr' = NULL
          /\ tree' = NoTree
          /\ points' = <<>>
          /\ node_data' = <<>>
          /\ xyz' = <<>>
          /\ how' = "none"
  /\ UNCHANGED <<pc, iterVars>>

\* kdtree_search_space(tree, &iter, x_min, x_max, y_min, y_max, z_min, z_max)
kdtree_search_space(x_min, x_max, y_min, y_max, z_min, z_max) ==
  /\ pc = "run"
  /\ IF \/ tree_ptr = NULL
        \/ tree.root = NULL
        \/ _is_leaf_node(node_data[tree.root])
     THEN /\ pc' = IF tree_ptr = NULL THEN "assert(tree != NULL)"
                   ELSE IF tree.root = NULL THEN "assert(tree->root != NULL)"
                   ELSE "assert(!_is_leaf_node(tree->root))"
          /\ search_space' = NoSpace
          /\ UNCHANGED <<heap, iterVars>>
     ELSE
       LET a_iter == Malloc(heap)
           a_data == Malloc(heap \cup {a_iter})
           it0 == IF iter_ptr # NULL THEN _iterator_reset(iter, data)
                  ELSE _iterator_new(a_data)
           space == Space(x_min, x_max, y_min, y_max, z_min, z_max)
           it == _search_kdtree(Under(tree, points, node_data), tree.root, 0,
                                space, RootDomain, it0)
       IN
       /\ pc' = pc
       /\ heap' = IF iter_ptr # NULL THEN heap ELSE heap \cup {a_iter, a_data}
       /\ iter_ptr' = IF iter_ptr # NULL THEN iter_ptr ELSE a_iter
       /\ iter' = it.iter
       /\ data' = it.data
       /\ search_space' = space
  /\ UNCHANGED <<bad_free, xyz, how, treeVars>>

\* kdtree_search without its assertion
kdtree_search_unchecked(x, y, z, apothem) ==
  kdtree_search_space(x - apothem, x + apothem,
                      y - apothem, y + apothem,
                      z - apothem, z + apothem)

\* kdtree_search(tree, &iter, x, y, z, apothem)
kdtree_search(x, y, z, apothem) ==
  IF ~(apothem >= 0)
  THEN /\ pc = "run"
       /\ pc' = "assert(apothem >= 0.0)"
       /\ search_space' = NoSpace
       /\ UNCHANGED <<heap, bad_free, xyz, how, treeVars, iterVars>>
  ELSE kdtree_search_space(x - apothem, x + apothem,
                           y - apothem, y + apothem,
                           z - apothem, z + apothem)

\* kdtree_iterator_get_next that starts over once the results are exhausted
kdtree_iterator_get_next_wraps ==
  /\ pc = "run"
  /\ iter_ptr # NULL
  /\ IF iter.current = iter.size
     THEN /\ ret' = KDTREE_END
          /\ iter' = [iter EXCEPT !.current = 0]
     ELSE /\ ret' = data[iter.current + 1]
          /\ iter' = [iter EXCEPT !.current = @ + 1]
  /\ UNCHANGED <<pc, heap, bad_free, xyz, how, treeVars, iter_ptr, data>>

\* kdtree_iterator_get_next(iter), for a handle that is not NULL
kdtree_iterator_get_next ==
  /\ pc = "run"
  /\ iter_ptr # NULL
  /\ IF iter.current = iter.size
     THEN /\ ret' = KDTREE_END
          /\ iter' = iter
     ELSE /\ ret' = data[iter.current + 1]
          /\ iter' = [iter EXCEPT !.current = @ + 1]
  /\ UNCHANGED <<pc, heap, bad_free, xyz, how, treeVars, iter_ptr, data>>

\* kdtree_iterator_rewind(iter)
kdtree_iterator_rewind ==
  /\ pc = "run"
  /\ IF iter_ptr = NULL
     THEN pc' = "assert(iter != NULL)" /\ iter' = iter
     ELSE pc' = pc /\ iter' = [iter EXCEPT !.current = 0]
  /\ UNCHANGED <<heap, bad_free, xyz, how, treeVars, iter_ptr, data>>

\* cmp_size_t
cmp_size_t(A1, A2) == CMP(A1, A2)

\* qsort(data, size, sizeof(size_t), cmp_size_t): the first size elements
\* in ascending order (equal values cannot be told apart)
SortedPrefix(d, size) ==
  LET rank == [i \in 1..size |->
                 Cardinality({j \in 1..size : cmp_size_t(d[j], d[i]) < 0})
                 + Cardinality({j \in 1..(i - 1) : cmp_size_t(d[j], d[i]) = 0})]
  IN [k \in 1..Len(d) |->
        IF k <= size THEN d[CHOOSE i \in 1..size : rank[i] = k - 1] ELSE d[k]]

\* kdtree_iterator_sort(iter), for a handle that is not NULL
kdtree_iterator_sort ==
  /\ pc = "run"
  /\ iter_ptr # NULL
  /\ data' = SortedPrefix(data, iter.size)
  /\ UNCHANGED <<pc, heap, bad_free, xyz, how, treeVars, iter_ptr, iter>>

\* kdtree_iterator_delete(&iter)
kdtree_iterator_delete ==
  /\ pc = "run"
  /\ IF iter_ptr = NULL
     THEN UNCHANGED <<heap, bad_free, iterVars>>
     ELSE /\ heap' = FreeAll(heap, FreedByIteratorDelete(iter, iter_ptr))
          /\ bad_free' = (bad_free \/
                          AnyBadFree(heap, FreedByIteratorDelete(iter, iter_ptr)))
          /\ iter_ptr' = NULL
          /\ iter' = NoIter
          /\ data' = <<>>
  /\ UNCHANGED <<pc, xyz, how, treeVars>>

\* ------------------------------------------------------------ the callers
PointVals == [x : Coords, y : Coords, z : Coords]

\* the caller's arrays x, y, z of length count
Arrays(count) == [1..count -> PointVals]

\* the unit-cube corners that the test sets as points 3..10
Fixture ==
  << [x |-> 0, y |-> 0, z |-> 0], [x |-> 1, y |-> 0, z |-> 0],
     [x |-> 1, y |-> 1, z |-> 0], [x |-> 0, y |-> 1, z |-> 0],
     [x |-> 0, y |-> 0, z |-> 1], [x |-> 1, y |-> 0, z |-> 1],
     [x |-> 1, y |-> 1, z |-> 1], [x |-> 0, y |-> 1, z |-> 1] >>

\* the arrays of length count that keep the points of old they still hold
Resized(old, count) ==
  IF count <= Len(old) THEN {SubSeq(old, 1, count)}
  ELSE {old \o t : t \in Arrays(count - Len(old))}

\* the arrays that differ from one of S in at most k points
RECURSIVE MovedUpTo(_, _)
MovedUpTo(S, k) ==
  IF k = 0 THEN S
  ELSE MovedUpTo(S \cup UNION {{[a EXCEPT ![i] = p] :
                                    i \in DOMAIN a, p \in PointVals} : a \in S},
                 k - 1)

\* a bound of a box: a coordinate, or beyond every finite double
MinBounds == {-DBL_MAX} \cup Coords
MaxBounds == Coords \cup {DBL_MAX}
Apothems == -1..MaxApothem

\* a call of a function that returns nothing and is no search
Called(name, a) ==
  last' = name /\ arg' = a /\ search_space' = NoSpace /\ ret' = UNINIT

\* a call of one of the two search functions
CalledSearch(name, a) == last' = name /\ arg' = a /\ ret' = UNINIT

\* the points move, and the tree is rebuilt
Build ==
  \E count \in 0..MaxCount :
    \E arrays \in MovedUpTo(Resized(xyz, count), MaxMoved) :
      kdtree_build(arrays, count) /\ Called("kdtree_build", count)

\* a tree is built from any points
BuildAny ==
  \E count \in 0..MaxCount : \E arrays \in Arrays(count) :
    kdtree_build(arrays, count) /\ Called("kdtree_build", count)

\* the runs of count successive corners among the first of the test
Windows(count) ==
  {SubSeq(Fixture, from, from + count - 1) : from \in 1..(MaxFixture - count + 1)}

\* the tree is built, or built again, over some successive corners of the
\* test
Rebuild ==
  \E count \in 0..MaxCount : \E arrays \in Windows(count) :
    kdtree_build(arrays, count) /\ Called("kdtree_build", count)

\* the tree is built over the first corners of the test, some of them moved
BuildFixture ==
  \E count \in (MaxCount + 1)..MaxFixture :
    \E arrays \in MovedUpTo({SubSeq(Fixture, 1, count)}, MaxMoved) :
      kdtree_build(arrays, count) /\ Called("kdtree_build", count)

\* count points on the diagonal of space, the farthest first: no two share
\* a coordinate
Diagonal(count) ==
  [i \in 1..count |-> [x |-> count - i, y |-> count - i, z |-> count - i]]

\* a tree is built over the points of the diagonal
BuildDiagonal ==
  /\ kdtree_build(Diagonal(DiagonalCount), DiagonalCount)
  /\ Called("kdtree_build", DiagonalCount)

\* the numbers of results that fill the iterator's block, before and after
\* it has grown once, or exceed it by up to MaxSlack
FillingSizes ==
  {(KDTREE_ITERATOR_INITIAL_SIZE * c) + d :
     c \in {1, KDTREE_ITERATOR_GROWTH_RATIO}, d \in 0..MaxSlack}

\* a slab across x is searched that holds a filling number of the points of
\* the diagonal
SearchSlab ==
  \E n \in FillingSizes :
    /\ kdtree_search_space(0, n - 1, -DBL_MAX, DBL_MAX, -DBL_MAX, DBL_MAX)
    /\ CalledSearch("kdtree_search_space", 0)

Delete == kdtree_delete /\ Called("kdtree_delete", 0)

Search ==
  \E x, y, z \in Coords : \E apothem \in Apothems :
    kdtree_search(x, y, z, apothem) /\ CalledSearch("kdtree_search", apothem)

SearchSpace ==
  \E x_min, y_min, z_min \in MinBounds : \E x_max, y_max, z_max \in MaxBounds :
    /\ kdtree_search_space(x_min, x_max, y_min, y_max, z_min, z_max)
    /\ CalledSearch("kdtree_search_space", 0)

\* the whole of space is searched
SearchAll ==
  /\ kdtree_search_space(-DBL_MAX, DBL_MAX, -DBL_MAX, DBL_MAX, -DBL_MAX, DBL_MAX)
  /\ CalledSearch("kdtree_search_space", 0)

GetNext ==
  /\ kdtree_iterator_get_next
  /\ last' = "kdtree_iterator_get_next" /\ arg' = 0 /\ search_space' = NoSpace

Rewind == kdtree_iterator_rewind /\ Called("kdtree_iterator_rewind", 0)

Sort == kdtree_iterator_sort /\ Called("kdtree_iterator_sort", 0)

IteratorDelete == kdtree_iterator_delete /\ Called("kdtree_iterator_delete", 0)

\* ------------------------------------------------------ the specifications
Init ==
  /\ pc = "run"
  /\ heap = {}
  /\ bad_free = FALSE
  /\ xyz = <<>>
  /\ how = "none"
  /\ tree_ptr = NULL
  /\ tree = NoTree
  /\ points = <<>>
  /\ node_data = <<>>
  /\ iter_ptr = NULL
  /\ iter = NoIter
  /\ data = <<>>
  /\ search_space = NoSpace
  /\ ret = UNINIT
  /\ last = "none"
  /\ arg = 0

\* The tree is built over the test's points and rebuilt as they move; the
\* iterator is searched into, consumed, sorted, rewound and searched into
\* again.
Next ==
  \/ Rebuild
  \/ Delete
  \/ Search
  \/ SearchAll
  \/ GetNext
  \/ Rewind
  \/ Sort
  \/ IteratorDelete

Spec == Init /\ [][Next]_vars

\* One tree is built on a NULL handle, from any points or from the test's
\* corners; then one search is made into a NULL iterator handle.
QueryNext ==
  \/ (tree_ptr = NULL /\ BuildAny)
  \/ (tree_ptr = NULL /\ BuildFixture)
  \/ (iter_ptr = NULL /\ SearchSpace)
  \/ (iter_ptr = NULL /\ Search)

SpecQuery == Init /\ [][QueryNext]_vars

\* The tree is built, rebuilt as the points move, and deleted, any number
\* of times; then one search is made into a NULL iterator handle.
LifeNext ==
  \/ (iter_ptr = NULL /\ Build)
  \/ (iter_ptr = NULL /\ Delete)
  \/ (iter_ptr = NULL /\ Search)

SpecLife == Init /\ [][LifeNext]_vars

\* the caller has no iterator yet, or its cursor is within MaxSlack of the
\* start or of the end of the results
NearAnEnd ==
  \/ iter_ptr = NULL
  \/ iter.current <= MaxSlack
  \/ iter.size - iter.current <= MaxSlack

\* One tree is built over the diagonal; slabs of it are searched into one
\* iterator, which is consumed and rewound at any time, and searched into
\* again or sorted when its cursor is near an end of the results.
GrowNext ==
  \/ (tree_ptr = NULL /\ BuildDiagonal)
  \/ (NearAnEnd /\ SearchSlab)
  \/ GetNext
  \/ Rewind
  \/ (NearAnEnd /\ Sort)

SpecGrow == Init /\ [][GrowNext]_vars

\* ------------------------------------------------------------ the claims
\* the last call was a search, and it returned
Searched == pc = "run" /\ last \in {"kdtree_search", "kdtree_search_space"}

\* the handle holds a tree that a build completed
Built == pc = "run" /\ tree_ptr # NULL

\* the coordinate of a point on axis a
Coord(p, a) == IF a = 0 THEN p.x ELSE IF a = 1 THEN p.y ELSE p.z

\* p lies in the box on every axis, the bounds included
Within(p, box) ==
  \A a \in 0..(NDIMS - 1) : box[a].min <= Coord(p, a) /\ Coord(p, a) <= box[a].max

\* the original indices of the points of arrays that lie in the box
Matching(arrays, box) ==
  {j - 1 : j \in {i \in DOMAIN arrays : Within(arrays[i], box)}}

\* the elements of a sequence
Range(seq) == {seq[i] : i \in DOMAIN seq}

\* the leaves below node p, one entry per path that reaches a leaf
RECURSIVE LeavesUnder(_, _)
LeavesUnder(nd, p) ==
  IF _is_leaf_node(nd[p]) THEN <<p>>
  ELSE LeavesUnder(nd, nd[p].left) \o LeavesUnder(nd, nd[p].right)

\* the branches at and below node p, one entry per path that reaches one
RECURSIVE BranchesUnder(_, _)
BranchesUnder(nd, p) ==
  IF _is_leaf_node(nd[p]) THEN <<>>
  ELSE <<p>> \o BranchesUnder(nd, nd[p].left) \o BranchesUnder(nd, nd[p].right)

\* C1: after a search returns, the iterator holds the original index of
\* every point that lies in the box on all three axes, bounds included,
\* each exactly once, and no other index; its size is their number.
C1_SearchExact ==
  Searched =>
    /\ \A i, j \in 1..iter.size : i # j => data[i] # data[j]
    /\ {data[i] : i \in 1..iter.size} = Matching(xyz, search_space)
    /\ iter.size = Cardinality(Matching(xyz, search_space))

\* a search over the deepest tree returned some points and not all, one of
\* them on the upper x bound of the box, which is the root's split
C1_Witness ==
  /\ Searched
  /\ tree.count = MaxFixture
  /\ 0 < iter.size /\ iter.size < tree.count
  /\ node_data[tree.root].split = search_space[0].max
  /\ \E i \in 1..iter.size : xyz[data[i] + 1].x = search_space[0].max

\* C2: a build never fails the assertion of _next_node, and the tree it
\* leaves has n leaves and n - 1 branches in 2n - 1 distinct nodes, the
\* leaves refer to n distinct cache slots that hold the original indices
\* 0..n-1 once each, and next_node equals max_nodes.
C2_TreeShape ==
  /\ pc # "assert(tree->next_node < tree->max_nodes)"
  /\ Built =>
       LET n == tree.count
           ls == LeavesUnder(node_data, tree.root)
           bs == BranchesUnder(node_data, tree.root)
       IN
       /\ n = Len(xyz)
       /\ Len(ls) = n
       /\ Len(bs) = n - 1
       /\ Cardinality(Range(ls) \cup Range(bs)) = (2 * n) - 1
       /\ {node_data[p].idx : p \in Range(ls)} = 0..(n - 1)
       /\ {points[node_data[p].idx + 1].idx : p \in Range(ls)} = 0..(n - 1)
       /\ tree.next_node = tree.max_nodes
       /\ tree.max_nodes = (2 * n) - 1

\* a build of the largest tree has just returned
C2_Witness == Built /\ last = "kdtree_build" /\ tree.count = MaxFixture

\* the trees that kdtree_build leaves on a NULL handle, from arrays
FreshTrees(arrays) ==
  LET count == Len(arrays)
      t0 == [count |-> count, max_nodes |-> MaxNodes(count), next_node |-> 0,
             points |-> NULL, node_data |-> NULL, root |-> UNINIT]
  IN _build_kdtree(0, count - 1, 0,
                   Under(t0, CachePoints(FreshPoints(count), arrays, count),
                         FreshNodes(MaxNodes(count))))

\* what a search of the box into a NULL iterator handle returns on them
FreshResults(arrays, box) ==
  { LET it == _search_kdtree(o.u, o.node, 0, box, RootDomain, _iterator_new(NULL))
    IN [i \in 1..it.iter.size |-> it.data[i]]
    : o \in FreshTrees(arrays) }

\* what the iterator holds: data[0..size-1]
Held == [i \in 1..iter.size |-> data[i]]

InPlace == {"in place", "in place, moved"}

\* C3: a build on a handle whose tree has the same count returns, keeps the
\* handle, the record's two blocks and the heap as they were, and a search
\* that follows returns what it returns on a tree built from the latest
\* coordinates on a fresh handle.
C3_RebuildInPlace ==
  /\ [](Searched /\ how \in InPlace => Held \in FreshResults(xyz, search_space))
  /\ [][ ( /\ last' = "kdtree_build"
            /\ pc' # "assert(count > 1)"
            /\ tree_ptr # NULL
            /\ Len(xyz') = tree.count )
          => ( /\ pc' = "run"
               /\ how' \in InPlace
               /\ heap' = heap
               /\ tree_ptr' = tree_ptr
               /\ tree'.points = tree.points
               /\ tree'.node_data = tree.node_data
               /\ tree'.count = tree.count
               /\ tree'.max_nodes = tree.max_nodes ) ]_vars

\* a search returned points of a tree rebuilt in place from coordinates
\* that had moved, whose cache the sort has permuted
C3_Witness ==
  /\ Searched
  /\ how = "in place, moved"
  /\ iter.size > 0
  /\ \E i \in 1..tree.count : points[i].idx # i - 1

\* the blocks that the two handles own
Owned ==
  (IF tree_ptr = NULL THEN {} ELSE {tree_ptr, tree.points, tree.node_data})
  \cup (IF iter_ptr = NULL THEN {} ELSE {iter_ptr, iter.data})

\* C4: the handle is NULL or a live tree with the count of the latest build
\* and room for 2 * count - 1 nodes; a build replaces the storage only when
\* the count differs; kdtree_delete frees the three blocks and leaves NULL,
\* and does nothing to a NULL handle; no block is freed twice or leaked.
C4_Lifecycle ==
  /\ [] ( /\ ~bad_free
          /\ heap = Owned
          /\ Cardinality(heap) = (IF tree_ptr = NULL THEN 0 ELSE 3)
                                 + (IF iter_ptr = NULL THEN 0 ELSE 2)
          /\ tree_ptr # NULL =>
                /\ tree.count = Len(xyz)
                /\ tree.count > 1
                /\ tree.max_nodes = (2 * tree.count) - 1
                /\ Len(points) = tree.count
                /\ Len(node_data) = tree.max_nodes )
  /\ [][ /\ (last' = "kdtree_build" /\ pc' = "run" /\ how' = "realloc")
             => tree.count # tree'.count
         /\ (last' = "kdtree_build" /\ pc' = "run" /\ how' \in InPlace)
             => tree.count = tree'.count /\ heap' = heap
         /\ (last' = "kdtree_delete")
             => /\ tree_ptr' = NULL
                /\ heap' = heap \ (IF tree_ptr = NULL THEN {}
                                    ELSE {tree_ptr, tree.points, tree.node_data})
                /\ tree_ptr = NULL => UNCHANGED <<treeVars, iterVars, pc>> ]_vars

\* a build with another count has replaced the storage of a live tree
C4_Witness == Built /\ last = "kdtree_build" /\ how = "realloc"

\* C5: kdtree_iterator_get_next returns data[current] and advances while
\* current < size, so successive calls return data[0..size-1] in order; at
\* current = size it returns KDTREE_END and changes nothing, however often
\* it is called; kdtree_iterator_rewind sets current to 0 and leaves size
\* and data alone.
C5_IteratorCursor ==
  /\ [](iter_ptr # NULL => 0 <= iter.current /\ iter.current <= iter.size)
  /\ [](last = "kdtree_iterator_get_next" =>
          IF ret = KDTREE_END THEN iter.current = iter.size
          ELSE iter.current > 0 /\ ret = data[iter.current])
  /\ [][ /\ last' = "kdtree_iterator_get_next" =>
              /\ iter'.current = IF iter.current < iter.size
                                 THEN iter.current + 1 ELSE iter.current
              /\ (iter.current = iter.size) = (ret' = KDTREE_END)
              /\ iter' = [iter EXCEPT !.current = iter'.current]
              /\ UNCHANGED <<data, iter_ptr, heap>>
         /\ (last' = "kdtree_iterator_rewind" /\ pc' = "run") =>
              /\ iter' = [iter EXCEPT !.current = 0]
              /\ UNCHANGED <<data, iter_ptr, heap>> ]_vars

\* every result of a search has been returned, and then KDTREE_END
C5_Witness ==
  /\ last = "kdtree_iterator_get_next"
  /\ ret = KDTREE_END
  /\ iter.size > 1
  /\ iter.current = iter.size

\* what a search of the box over the tree returns into a NULL handle
NewResult ==
  LET it == _search_kdtree(Under(tree, points, node_data), tree.root, 0,
                           search_space, RootDomain, _iterator_new(NULL))
  IN [i \in 1..it.iter.size |-> it.data[i]]

\* C6: a search into an existing iterator first resets it (size 0, cursor
\* 0, the block and its capacity kept), never reduces the capacity, and
\* leaves the result of the same search into a NULL handle.
C6_IteratorReuse ==
  /\ [](Searched => /\ Held = NewResult
                     /\ iter.current = 0
                     /\ iter.size <= iter.capacity
                     /\ iter.capacity = Len(data))
  /\ [](iter_ptr # NULL =>
          LET r == _iterator_reset(iter, data) IN
          /\ r.iter.size = 0 /\ r.iter.current = 0
          /\ r.iter.capacity = iter.capacity /\ r.iter.data = iter.data
          /\ r.data = data)
  /\ [][ (last' \in {"kdtree_search", "kdtree_search_space"}
           /\ pc' = "run" /\ iter_ptr # NULL) =>
            /\ iter_ptr' = iter_ptr
            /\ iter'.capacity >= iter.capacity ]_vars

\* a search into an iterator that held more results has returned: what it
\* left beyond the new results is still in the block
C6_Witness ==
  /\ Searched
  /\ iter.size > 0
  /\ data[iter.size + 1] # UNINIT

\* C7: the iterator is a snapshot: kdtree_build and kdtree_delete leave the
\* iterator, its cursor and its block as they were, and
\* kdtree_iterator_get_next goes on returning the indices recorded, read
\* from the block alone.
C7_Snapshot ==
  [][ /\ last' \in {"kdtree_build", "kdtree_delete"} => UNCHANGED iterVars
      /\ (last' = "kdtree_iterator_get_next" /\ iter.current < iter.size) =>
           ret' = data[iter.current + 1] /\ data' = data ]_vars

\* the tree was deleted, and the iterator has returned an index it recorded
C7_Witness ==
  /\ last = "kdtree_iterator_get_next"
  /\ tree_ptr = NULL
  /\ ret # KDTREE_END

\* C8: kdtree_build with count <= 1, kdtree_search with apothem < 0 and a
\* search on a NULL tree fail an assertion, and the process ends with the
\* heap, the tree and the iterator as they were before the call.
C8_AbortsFirst ==
  /\ [](last = "kdtree_build" /\ arg <= 1 => pc = "assert(count > 1)")
  /\ [](last = "kdtree_search" /\ arg < 0 => pc = "assert(apothem >= 0.0)")
  /\ [][ /\ (last' = "kdtree_search_space" /\ tree_ptr = NULL)
              => pc' = "assert(tree != NULL)"
         /\ (last' = "kdtree_search" /\ tree_ptr = NULL /\ arg' >= 0)
              => pc' = "assert(tree != NULL)"
         /\ pc' # "run"
              => /\ pc = "run"
                 /\ UNCHANGED <<heap, bad_free, xyz, treeVars, iterVars>> ]_vars

\* a search on a NULL tree has ended the process, and the iterator still
\* holds the results of an earlier search
C8_Witness ==
  /\ pc = "assert(tree != NULL)"
  /\ iter_ptr # NULL
  /\ iter.size > 0

\* the cached points under node p
PointsUnder(p) ==
  {points[node_data[l].idx + 1] : l \in Range(LeavesUnder(node_data, p))}

\* at every branch at and below p, which is at depth, the points under the
\* left child are <= the split and those under the right child are >= it,
\* on the axis depth mod 3
RECURSIVE SplitOrdered(_, _)
SplitOrdered(p, depth) ==
  \/ _is_leaf_node(node_data[p])
  \/ LET n == node_data[p]
         a == depth % NDIMS
     IN /\ \A q \in PointsUnder(n.left) : Coord(q, a) <= n.split
        /\ \A q \in PointsUnder(n.right) : Coord(q, a) >= n.split
        /\ SplitOrdered(n.left, depth + 1)
        /\ SplitOrdered(n.right, depth + 1)

\* what the traversal of the last search did with each child it was handed
Traversal ==
  _search_kdtree(Under(tree, points, node_data), tree.root, 0,
                 search_space, RootDomain, _iterator_new(NULL)).log

\* C9: the domain that _explore_branch is handed with a subtree bounds every
\* point under it (ties on the split included); under every branch the left
\* points are <= the split and the right points >= it on the axis depth mod
\* 3; a subtree skipped as disjoint holds no point of the box, and one
\* reported as enclosed holds only points of the box.
C9_DomainBounds ==
  /\ Built => SplitOrdered(tree.root, 0)
  /\ Searched =>
       \A k \in DOMAIN Traversal :
         LET e == Traversal[k] IN
         /\ \A q \in PointsUnder(e.node) : Within(q, e.domain)
         /\ e.did = "pruned" =>
              \A q \in PointsUnder(e.node) : ~Within(q, search_space)
         /\ e.did = "enclosed" =>
              \A q \in PointsUnder(e.node) : Within(q, search_space)

\* a search over the deepest tree, whose root splits a run of equal x
\* between its children, reported one child as enclosed and did not return
\* every point
C9_Witness ==
  /\ Searched
  /\ tree.count = MaxFixture
  /\ iter.size < tree.count
  /\ \E q \in PointsUnder(node_data[tree.root].right) :
       q.x = node_data[tree.root].split
  /\ \E k \in DOMAIN Traversal : Traversal[k].did = "enclosed"

\* the k-th smallest of the values of a sequence, k from 1
KthSmallest(vals, k) ==
  CHOOSE v \in Range(vals) :
    /\ Cardinality({i \in DOMAIN vals : vals[i] < v}) < k
    /\ Cardinality({i \in DOMAIN vals : vals[i] <= v}) >= k

\* at every branch at and below p, which is at depth: the split is the
\* lower median, on the axis depth mod 3, of the k points under it; the left
\* child has ceil(k / 2) of them and the right child floor(k / 2)
RECURSIVE MedianSplit(_, _)
MedianSplit(p, depth) ==
  \/ _is_leaf_node(node_data[p])
  \/ LET n == node_data[p]
         ls == LeavesUnder(node_data, p)
         k == Len(ls)
         vals == [i \in 1..k |->
                    Coord(points[node_data[ls[i]].idx + 1], depth % NDIMS)]
     IN /\ n.split = KthSmallest(vals, (k + 1) \div 2)
        /\ Len(LeavesUnder(node_data, n.left)) = (k + 1) \div 2
        /\ Len(LeavesUnder(node_data, n.right)) = k \div 2
        /\ MedianSplit(n.left, depth + 1)
        /\ MedianSplit(n.right, depth + 1)

\* C10: a branch built at depth d over k points has as split the lower
\* median of their coordinates on the axis d mod 3 (position
\* from + (to - from) / 2 of the sorted sub-range); its left subtree has
\* ceil(k / 2) of the points and its right subtree floor(k / 2).
C10_LowerMedian == Built => MedianSplit(tree.root, 0)

\* a tree of odd count with a branch at depth 2, which splits on z
C10_Witness ==
  /\ Built
  /\ tree.count = MaxFixture
  /\ ~_is_leaf_node(node_data[node_data[node_data[tree.root].left].left])

\* the last call was a search of a box whose six bounds are short of
\* +-DBL_MAX and that holds every point the tree was built from
CoversExtent ==
  /\ Searched
  /\ \A a \in 0..(NDIMS - 1) :
       -DBL_MAX < search_space[a].min /\ search_space[a].max < DBL_MAX
  /\ \A i \in DOMAIN xyz : Within(xyz[i], search_space)

\* C11, as claimed: a search of a finite box that covers the extent of the
\* points finds some subtree's domain completely enclosed and reports its
\* leaves through _report_all_leaves.
C11_EnclosurePath ==
  CoversExtent => \E k \in DOMAIN Traversal : Traversal[k].did = "enclosed"

\* C11, amended: a search of a finite box that covers the extent of the
\* points returns all n indices, once each; it reports a subtree as
\* enclosed only when splits have clamped all six bounds of its domain,
\* hence only a child of a branch at depth 5 or deeper, and reports every
\* other point by the test of its leaf.
C11_CoveringBox ==
  CoversExtent =>
    /\ iter.size = tree.count
    /\ Range(Held) = 0..(tree.count - 1)
    /\ \A k \in DOMAIN Traversal :
         Traversal[k].did = "enclosed" =>
           /\ Traversal[k].depth >= (2 * NDIMS) - 1
           /\ \A a \in 0..(NDIMS - 1) :
                /\ -DBL_MAX < Traversal[k].domain[a].min
                /\ Traversal[k].domain[a].max < DBL_MAX

\* a cube that reaches beyond every point of the deepest tree was searched:
\* the traversal descended into a branch and returned every point
C11_Witness ==
  /\ CoversExtent
  /\ last = "kdtree_search"
  /\ arg = MaxApothem
  /\ tree.count = MaxFixture
  /\ iter.size = tree.count
  /\ \E k \in DOMAIN Traversal : Traversal[k].did = "descend"

\* the capacity a block of the given capacity has once it holds size
\* elements that were pushed one by one
RECURSIVE CapacityFor(_, _)
CapacityFor(capacity, size) ==
  IF size <= capacity THEN capacity
  ELSE CapacityFor(capacity * KDTREE_ITERATOR_GROWTH_RATIO, size)

\* what one more push of value makes of the iterator as it stands
Pushed(value) == _iterator_push(Iterating(iter, data), value)

\* C12: whatever searches, get_next, rewind and sort calls one iterator has
\* seen, 0 <= cursor <= size <= capacity, and the block is capacity long;
\* a push changes the capacity only when size = capacity, then to twice
\* the capacity, keeps every element pushed before where it is, writes the
\* value at position size, inside the block, and adds one to size; the
\* capacity starts at the initial size, never decreases, and after a search
\* is the least doubling of what it was that holds the results.
C12_IteratorBounds ==
  /\ [](iter_ptr # NULL =>
          /\ 0 <= iter.current
          /\ iter.current <= iter.size
          /\ iter.size <= iter.capacity
          /\ Len(data) = iter.capacity
          /\ iter.capacity \in {CapacityFor(KDTREE_ITERATOR_INITIAL_SIZE, n) :
                                   n \in 0..DiagonalCount}
          /\ \A i \in 1..iter.size : data[i] \in 0..(tree.count - 1)
          /\ \A value \in 0..MaxSlack :
               /\ Pushed(value).iter.capacity =
                    IF iter.size = iter.capacity
                    THEN iter.capacity * KDTREE_ITERATOR_GROWTH_RATIO
                    ELSE iter.capacity
               /\ Pushed(value).iter.size = iter.size + 1
               /\ Pushed(value).iter.current = iter.current
               /\ Len(Pushed(value).data) = Pushed(value).iter.capacity
               /\ iter.size + 1 \in DOMAIN Pushed(value).data
               /\ Pushed(value).data[iter.size + 1] = value
               /\ \A i \in 1..iter.size : Pushed(value).data[i] = data[i])
  /\ [][iter_ptr' # NULL =>
          LET before == IF iter_ptr # NULL THEN iter.capacity
                        ELSE KDTREE_ITERATOR_INITIAL_SIZE
          IN /\ iter'.capacity >= before
             /\ iter'.capacity = CapacityFor(before, iter'.size)
             /\ (iter_ptr # NULL /\ iter.size = iter'.size) =>
                  iter'.capacity = iter.capacity]_vars

\* a search grew the block once and filled it, and every result has been
\* returned: cursor = size = capacity
C12_Witness ==
  /\ iter_ptr # NULL
  /\ last = "kdtree_iterator_get_next"
  /\ ret = KDTREE_END
  /\ iter.current = iter.size
  /\ iter.size = iter.capacity
  /\ iter.capacity = KDTREE_ITERATOR_INITIAL_SIZE * KDTREE_ITERATOR_GROWTH_RATIO

====
